---- MODULE Spec2Model ----
(***************************************************************************)
(* Model of satisfactory_serve_map (src/src/main.rs): a Rocket server that *)
(* serves the most recently modified save file matching a name             *)
(* (GET /map/<name>), lists the save names (GET /map), answers OPTIONS for *)
(* any path and decorates every response with fixed CORS headers.          *)
(*                                                                         *)
(* Strings that the code inspects character by character (names, glob      *)
(* patterns, paths, messages) are sequences of one-character strings.      *)
(***************************************************************************)
EXTENDS Integers, Sequences, FiniteSets, TLC

VARIABLES
    phase,          \* main(): "boot", "configured", "listening", "exited"
    devOk,          \* environment: config.dev.toml reads and parses
    cfgOk,          \* environment: config.toml reads and parses
    dirKind,        \* environment: what config.save_dir is: "missing", "file", "dir"
    config,         \* which file Config::load returned: "none", "dev", "main"
    exitCode,       \* -1 while the process runs, else its exit status
    mounted,        \* routes mounted and CORS fairing attached
    fs,             \* state of each save file of the universe
    pc,             \* position of the request in flight
    route,          \* which handler the request was routed to
    name,           \* <name> of GET /map/<name>
    pattern,        \* the pattern string serve_map built
    paths,          \* the paths the glob iterator yields, in its order
    idx,            \* next element of paths the metadata filter looks at
    cands,          \* (path, modified) pairs that passed the metadata filter
    latest,         \* latest_save: <<>> for None, <<path>> for Some(path)
    resp,           \* the response: status, kind, msg, body, names, headers
    fsOps,          \* filesystem operations this request performed so far
    prev,           \* <<>> or <<[name, status, kind, body]>>: previous /map/<name>
                    \* outcome, kept while the filesystem has not changed
    dirty,          \* the filesystem changed while the request was in flight
    everLatest      \* files that were the latest match at some instant of the scan

vars == <<phase, devOk, cfgOk, dirKind, config, exitCode, mounted,
          fs, pc, route, name, pattern, paths, idx, cands, latest, resp, fsOps,
          prev, dirty, everLatest>>

(***************************************************************************)
(* Bounds                                                                  *)
(***************************************************************************)
MaxTime == 2        \* modification times range over 1..MaxTime

(***************************************************************************)
(* Characters and strings                                                  *)
(***************************************************************************)
\* ASCII code of the characters used, for the byte-wise ordering of file names.
Rank(c) ==
    CASE c = "*"  -> 42
      [] c = "."  -> 46
      [] c = "/"  -> 47
      [] c = "0"  -> 48
      [] c = "1"  -> 49
      [] c = "?"  -> 63
      [] c = "["  -> 91
      [] c = "\\" -> 92
      [] c = "]"  -> 93
      [] c = "_"  -> 95
      [] c = "a"  -> 97
      [] c = "b"  -> 98
      [] c = "d"  -> 100
      [] c = "e"  -> 101
      [] c = "s"  -> 115
      [] c = "v"  -> 118
      [] OTHER    -> 0

\* Ord::cmp on two strings: lexicographic, a proper prefix first.
RECURSIVE LexLess(_, _)
LexLess(a, b) ==
    IF b = <<>> THEN FALSE
    ELSE IF a = <<>> THEN TRUE
    ELSE IF Rank(Head(a)) # Rank(Head(b)) THEN Rank(Head(a)) < Rank(Head(b))
    ELSE LexLess(Tail(a), Tail(b))

\* str::contains for a set of characters.
ContainsAny(s, chars) == \E i \in 1..Len(s) : s[i] \in chars

\* s starts with / ends with t.
StartsWith(s, t) == Len(t) <= Len(s) /\ SubSeq(s, 1, Len(t)) = t
EndsWith(s, t) == Len(t) <= Len(s) /\ SubSeq(s, Len(s) - Len(t) + 1, Len(s)) = t

\* t occurs in s as a contiguous substring.
Contains(s, t) ==
    \E i \in 1..(Len(s) - Len(t) + 1) : SubSeq(s, i, i + Len(t) - 1) = t

\* Index of the first occurrence of character c in s at or after from; 0 if none.
RECURSIVE Position(_, _, _)
Position(s, c, from) ==
    IF from > Len(s) THEN 0
    ELSE IF s[from] = c THEN from
    ELSE Position(s, c, from + 1)

\* str::split(c): the pieces of s between occurrences of c.
RECURSIVE Split(_, _)
Split(s, c) ==
    LET p == Position(s, c, 1)
    IN  IF p = 0 THEN <<s>>
        ELSE <<SubSeq(s, 1, p - 1)>> \o Split(SubSeq(s, p + 1, Len(s)), c)

\* Path::file_name: the last component of a path.
FileName(p) == LET cs == Split(p, "/") IN cs[Len(cs)]

\* The directory part of a path (everything before the last separator).
RECURSIVE JoinDirs(_)
JoinDirs(cs) ==
    IF Len(cs) = 0 THEN <<>>
    ELSE IF Len(cs) = 1 THEN cs[1]
    ELSE cs[1] \o <<"/">> \o JoinDirs(Tail(cs))

DirOf(p) == LET cs == Split(p, "/") IN JoinDirs(SubSeq(cs, 1, Len(cs) - 1))

(***************************************************************************)
(* The filesystem                                                          *)
(***************************************************************************)
SAV == <<".", "s", "a", "v">>

\* config.save_dir, as the configuration file gives it.
save_dir == <<"d">>

\* The save files that may exist in save_dir.
F_a0 == <<"d", "/", "a", "_", "0">> \o SAV      \* d/a_0.sav
F_a1 == <<"d", "/", "a", "_", "1">> \o SAV      \* d/a_1.sav
F_ab == <<"d", "/", "a", "b">> \o SAV           \* d/ab.sav
\* A save file in a subdirectory of save_dir and one outside of it; both
\* always exist, are readable and carry the newest modification time.
F_sub == <<"d", "/", "s", "/", "a">> \o SAV     \* d/s/a.sav
F_out == <<"e", "/", "a">> \o SAV               \* e/a.sav

DynFiles == {F_a0, F_a1, F_ab}
AllFiles == DynFiles \cup {F_sub, F_out}

\* A file is absent, or present with unreadable metadata ("nometa": readdir
\* lists it, stat fails), or present with metadata whose modification time
\* cannot be obtained ("notime": Metadata::modified() is Err), or present
\* with a modification time and a flag telling whether it can be opened.
Absent == [kind |-> "absent", mtime |-> 0, open |-> FALSE]
NoMeta == [kind |-> "nometa", mtime |-> 0, open |-> FALSE]
NoTime == [kind |-> "notime", mtime |-> 0, open |-> FALSE]
Present(t, o) == [kind |-> "file", mtime |-> t, open |-> o]
FileStates ==
    {Absent, NoMeta, NoTime} \cup {Present(t, o) : t \in 1..MaxTime, o \in BOOLEAN}
\* The states a writer that only creates, deletes and touches files produces.
ConcStates == {Absent} \cup {Present(t, TRUE) : t \in 1..MaxTime}

StateOf(f, p) == IF p \in DynFiles THEN f[p] ELSE Present(MaxTime, TRUE)

\* readdir lists the entry.
Listed(f, p) == StateOf(f, p).kind # "absent"
\* path.metadata() is Ok.
MetaOk(f, p) == StateOf(f, p).kind \in {"file", "notime"}
\* metadata.modified() is Ok.
ModifiedOk(f, p) == StateOf(f, p).kind = "file"
\* NamedFile::open(path) is Ok.
OpenOk(f, p) == StateOf(f, p).kind = "file" /\ StateOf(f, p).open

(***************************************************************************)
(* glob::glob, as serve_map and map_index use it (MatchOptions::new():     *)
(* case sensitive, wildcards never cross a path separator because the      *)
(* iterator matches component by component).  The alphabet of the model    *)
(* has no '!' and no '-', so negated classes and ranges do not arise.      *)
(***************************************************************************)
TokChar(c) == [t |-> "Char", c |-> c, cs |-> {}]
TokAnyChar == [t |-> "AnyChar", c |-> "", cs |-> {}]
TokAnySeq == [t |-> "AnySequence", c |-> "", cs |-> {}]
TokWithin(S) == [t |-> "AnyWithin", c |-> "", cs |-> S]

PatErr == [ok |-> FALSE, tokens |-> <<>>]
PatOk(toks) == [ok |-> TRUE, tokens |-> toks]
Cons(tok, r) == IF r.ok THEN PatOk(<<tok>> \o r.tokens) ELSE PatErr

\* Pattern::new on one path component, from index i on.
RECURSIVE ParsePattern(_, _)
ParsePattern(chars, i) ==
    IF i > Len(chars) THEN PatOk(<<>>)
    ELSE LET c == chars[i] IN
      CASE c = "?" -> Cons(TokAnyChar, ParsePattern(chars, i + 1))
        [] c = "*" ->
             \* "**" is accepted only as a whole component and "***" never;
             \* every component here ends in ".sav" or is a literal directory.
             IF i < Len(chars) /\ chars[i + 1] = "*" THEN PatErr
             ELSE Cons(TokAnySeq, ParsePattern(chars, i + 1))
        [] c = "[" ->
             \* '[' x ... ']' : the class is everything up to the first ']'
             \* found after the first class character.
             LET close == Position(chars, "]", i + 2)
             IN  IF i + 2 <= Len(chars) /\ close # 0
                 THEN Cons(TokWithin({chars[k] : k \in (i + 1)..(close - 1)}),
                           ParsePattern(chars, close + 1))
                 ELSE PatErr
        [] OTHER -> Cons(TokChar(c), ParsePattern(chars, i + 1))

\* Pattern::matches_from: tokens from ti on against s from si on.
RECURSIVE MatchesFrom(_, _, _, _)
MatchesFrom(toks, ti, s, si) ==
    IF ti > Len(toks) THEN si > Len(s)
    ELSE LET tok == toks[ti] IN
      IF tok.t = "AnySequence"
      THEN \E k \in si..(Len(s) + 1) : MatchesFrom(toks, ti + 1, s, k)
      ELSE /\ si <= Len(s)
           /\ CASE tok.t = "Char"      -> s[si] = tok.c
                [] tok.t = "AnyChar"   -> TRUE
                [] tok.t = "AnyWithin" -> s[si] \in tok.cs
                [] OTHER               -> FALSE
           /\ MatchesFrom(toks, ti + 1, s, si + 1)

\* The path matches the pattern component by component.
PathMatches(pat, p) ==
    LET pc_ == Split(pat, "/")
        cs  == Split(p, "/")
    IN  /\ Len(pc_) = Len(cs)
        /\ \A i \in 1..Len(cs) :
             LET r == ParsePattern(pc_[i], 1)
             IN  r.ok /\ MatchesFrom(r.tokens, 1, cs[i], 1)

\* glob(&pattern) is Ok: every component compiles.
PatternValid(pat) ==
    LET pc_ == Split(pat, "/")
    IN  \A i \in 1..Len(pc_) : ParsePattern(pc_[i], 1).ok

\* The iterator sorts each directory's entries by file name, ascending.
RECURSIVE SortPaths(_)
SortPaths(S) ==
    IF S = {} THEN <<>>
    ELSE LET m == CHOOSE x \in S : \A y \in S \ {x} : LexLess(x, y)
         IN  <<m>> \o SortPaths(S \ {m})

\* The paths the glob iterator yields for pat on filesystem f.
GlobPaths(pat, f) ==
    SortPaths({p \in AllFiles : Listed(f, p) /\ PathMatches(pat, p)})

(***************************************************************************)
(* Requests a client may send                                              *)
(***************************************************************************)
\* The <name> segments tried: plain names, names with glob metacharacters,
\* and names with the characters the validation rejects.
Names ==
    { <<"a">>, <<"b">>, <<"?">>, <<"*">>, <<"[", "a", "]">>, <<"[">>,
      <<"a", ".">>, <<"s", "/", "a">>, <<"\\">> }
\* The names requested while a writer runs concurrently.
ConcNames == { <<"a">>, <<"b">>, <<"a", ".">> }

(***************************************************************************)
(* Responses                                                               *)
(***************************************************************************)
CorsHeaders ==
    { "Access-Control-Allow-Origin", "Access-Control-Allow-Methods",
      "Access-Control-Allow-Headers", "Access-Control-Allow-Credentials" }

NoHeaders == [h \in CorsHeaders |-> <<>>]

\* A response as a responder produces it, before the fairings run.
Response(status, kind, msg, body, names) ==
    [status |-> status, kind |-> kind, msg |-> msg, body |-> body,
     names |-> names, headers |-> NoHeaders]

NoResponse == Response(0, "none", <<>>, <<>>, {})

\* MapError::BadRequest(msg), #[response(status = 400)]
BadRequest(msg) == Response(400, "BadRequest", msg, <<>>, {})
\* MapError::NotFound(msg), #[response(status = 404)]
NotFound(msg) == Response(404, "NotFound", msg, <<>>, {})
\* NamedFile: 200 with the content of the file at path.
FileResponse(path) == Response(200, "File", <<>>, path, {})
\* RawHtml: 200 with the page that links every name of the set.
HtmlResponse(names) == Response(200, "Html", <<>>, <<>>, names)
\* all_options returns (): 200 with an empty body.
EmptyResponse == Response(200, "Empty", <<>>, <<>>, {})
\* A handler panicked: Rocket answers with its 500 catcher.
PanicResponse == Response(500, "Panic", <<>>, <<>>, {})
\* No route matches: Rocket answers with its 404 catcher.
CatcherResponse == Response(404, "Catcher", <<>>, <<>>, {})

(***************************************************************************)
(* serve_map, pure parts                                                   *)
(***************************************************************************)
\* name.contains(['/', '\\', '.']); two faulty variants, each forgetting one
\* character, come first.
InvalidName_NoSlash(n) == ContainsAny(n, {"\\", "."})
InvalidName_NoDot(n) == ContainsAny(n, {"/", "\\"})
InvalidName(n) == ContainsAny(n, {"/", "\\", "."})

\* format!("{}/{}*.sav", config.save_dir, name)
MakePattern(dir, n) == dir \o <<"/">> \o n \o <<"*">> \o SAV

\* format!("No matching files found for pattern: {}", pattern); the faulty
\* variant leaves the pattern out.
NoMatchMsg_NoPattern(pat) == <<"No matching files found">>
NoMatchMsg(pat) == <<"No matching files found for pattern: ">> \o pat

InvalidNameMsg == <<"Invalid characters in name">>
InvalidPatternMsg == <<"Invalid pattern: ">>
OpenFailedMsg == <<"Failed to open file: ">>

\* Iterator::max_by_key(|&(_, modified_time)| modified_time).map(|(path, _)| path):
\* the last element with the maximum key, None for an empty iterator.
\* Faulty variants: the first maximum, the minimum (min_by_key), and a
\* tie-break that differs between a request and its repetition.
MaxByKey_First(cs) ==
    IF cs = <<>> THEN <<>>
    ELSE LET i == CHOOSE i \in 1..Len(cs) :
                    /\ \A j \in 1..Len(cs) : cs[j].modified <= cs[i].modified
                    /\ \A j \in 1..(i - 1) : cs[j].modified < cs[i].modified
         IN  <<cs[i].path>>
MaxByKey_Min(cs) ==
    IF cs = <<>> THEN <<>>
    ELSE LET i == CHOOSE i \in 1..Len(cs) :
                    /\ \A j \in 1..Len(cs) : cs[j].modified >= cs[i].modified
                    /\ \A j \in (i + 1)..Len(cs) : cs[j].modified > cs[i].modified
         IN  <<cs[i].path>>
MaxByKey_Unstable(cs) ==
    IF prev = <<>> THEN MaxByKey_First(cs)
    ELSE IF cs = <<>> THEN <<>>
    ELSE LET i == CHOOSE i \in 1..Len(cs) :
                    /\ \A j \in 1..Len(cs) : cs[j].modified <= cs[i].modified
                    /\ \A j \in (i + 1)..Len(cs) : cs[j].modified < cs[i].modified
         IN  <<cs[i].path>>
MaxByKey(cs) ==
    IF cs = <<>> THEN <<>>
    ELSE LET i == CHOOSE i \in 1..Len(cs) :
                    /\ \A j \in 1..Len(cs) : cs[j].modified <= cs[i].modified
                    /\ \A j \in (i + 1)..Len(cs) : cs[j].modified < cs[i].modified
         IN  <<cs[i].path>>

(***************************************************************************)
(* map_index, pure parts                                                   *)
(***************************************************************************)
\* format!("{}/*.sav", config.save_dir)
IndexPattern(dir) == dir \o <<"/", "*">> \o SAV

\* file_name.to_string_lossy().split('_').next()
SaveNameOf(fileName) == Split(fileName, "_")[1]

\* The HashSet of save names map_index collects.
SaveNames(f) ==
    {SaveNameOf(FileName(p)) : p \in {q \in AllFiles : Listed(f, q)
                                        /\ PathMatches(IndexPattern(save_dir), q)}}

(***************************************************************************)
(* CORS fairing                                                            *)
(***************************************************************************)
CorsValue(h) ==
    CASE h = "Access-Control-Allow-Origin"      -> "https://satisfactory-calculator.com"
      [] h = "Access-Control-Allow-Methods"     -> "POST, GET, PATCH, OPTIONS"
      [] h = "Access-Control-Allow-Headers"     -> "*"
      [] h = "Access-Control-Allow-Credentials" -> "true"

\* Response::set_header replaces every value the header had; the faulty
\* variant adjoins the value instead.
OnResponse_Adjoin(r) ==
    [r EXCEPT !.headers = [h \in CorsHeaders |-> r.headers[h] \o <<CorsValue(h)>>]]
OnResponse(r) ==
    [r EXCEPT !.headers = [h \in CorsHeaders |-> <<CorsValue(h)>>]]

(***************************************************************************)
(* main, pure parts                                                        *)
(***************************************************************************)
\* Config::load: config.dev.toml if it loads, else config.toml, else Err.
LoadResult(dev, cfg) == IF dev THEN "dev" ELSE IF cfg THEN "main" ELSE "none"

\* std::fs::metadata(&path)?.is_dir(): "err" when metadata fails; the faulty
\* variant accepts anything that exists.
DirCheck_Exists(kind) == IF kind = "missing" THEN "err" ELSE "dir"
DirCheck(kind) ==
    IF kind = "missing" THEN "err" ELSE IF kind = "dir" THEN "dir" ELSE "notdir"

(***************************************************************************)
(* State machine                                                           *)
(***************************************************************************)
envVars == <<devOk, cfgOk, dirKind>>
bootVars == <<phase, config, exitCode, mounted>>
scanVars == <<pattern, paths, idx, cands, latest, everLatest>>

\* The matching files with the largest modification time on filesystem f.
LatestSet(f, pat) ==
    LET M == {p \in AllFiles : PathMatches(pat, p) /\ ModifiedOk(f, p)}
    IN  {p \in M : \A q \in M : StateOf(f, q).mtime <= StateOf(f, p).mtime}

Init ==
    /\ phase = "boot"
    /\ devOk \in BOOLEAN
    /\ cfgOk \in BOOLEAN
    /\ dirKind \in {"missing", "file", "dir"}
    /\ config = "none"
    /\ exitCode = -1
    /\ mounted = FALSE
    /\ fs \in [DynFiles -> FileStates]
    /\ pc = "idle"
    /\ route = "none"
    /\ name = <<>>
    /\ pattern = <<>>
    /\ paths = <<>>
    /\ idx = 0
    /\ cands = <<>>
    /\ latest = <<>>
    /\ resp = NoResponse
    /\ fsOps = {}
    /\ prev = <<>>
    /\ dirty = FALSE
    /\ everLatest = {}

\* main: let config = Config::load()?;
LoadConfig ==
    /\ phase = "boot"
    /\ config' = LoadResult(devOk, cfgOk)
    /\ IF config' = "none"
       THEN phase' = "exited" /\ exitCode' = 1
       ELSE phase' = "configured" /\ exitCode' = exitCode
    /\ UNCHANGED <<envVars, mounted, fs, pc, route, name, scanVars, resp, fsOps,
                   prev, dirty>>

\* main: if !std::fs::metadata(&path)?.is_dir() { exit(1) }
ValidateDir ==
    /\ phase = "configured"
    /\ IF DirCheck(dirKind) = "dir"
       THEN phase' = "validated" /\ exitCode' = exitCode
       ELSE phase' = "exited" /\ exitCode' = 1
    /\ UNCHANGED <<envVars, config, mounted, fs, pc, route, name, scanVars, resp,
                   fsOps, prev, dirty>>

\* main: rocket::custom(figment).attach(CORS).mount(...).manage(...).launch()
Launch ==
    /\ phase = "validated"
    /\ phase' = "listening"
    /\ mounted' = TRUE
    /\ UNCHANGED <<envVars, config, exitCode, fs, pc, route, name, scanVars, resp,
                   fsOps, prev, dirty>>

\* launch() returns Ok after a graceful shutdown: main returns Ok(()).
Shutdown ==
    /\ phase = "listening"
    /\ pc = "idle"
    /\ phase' = "exited"
    /\ exitCode' = 0
    /\ UNCHANGED <<envVars, config, mounted, fs, pc, route, name, scanVars, resp,
                   fsOps, prev, dirty>>

\* GET /map/<name> is routed to serve_map, for a name of the set N.
Receive(N) ==
    /\ phase = "listening"
    /\ pc = "idle"
    /\ \E n \in N :
         /\ name' = n
         /\ prev' = IF prev # <<>> /\ prev[1].name = n THEN prev ELSE <<>>
    /\ route' = "serve_map"
    /\ pc' = "validate"
    /\ UNCHANGED <<envVars, bootVars, fs, scanVars, resp, fsOps, dirty>>

ReceiveServeMap == Receive(Names)

\* serve_map: the validation and the pattern.
Validate ==
    /\ pc = "validate"
    /\ IF InvalidName(name)
       THEN /\ resp' = BadRequest(InvalidNameMsg)
            /\ pc' = "respond"
            /\ pattern' = pattern
       ELSE /\ pattern' = MakePattern(save_dir, name)
            /\ pc' = "glob"
            /\ resp' = resp
    /\ UNCHANGED <<envVars, bootVars, fs, route, name, paths, idx, cands, latest,
                   everLatest, fsOps, prev, dirty>>

\* serve_map: glob(&pattern).map_err(..)? and the directory listing the
\* iterator takes when it is first advanced.
GlobStep ==
    /\ pc = "glob"
    /\ IF PatternValid(pattern)
       THEN /\ paths' = GlobPaths(pattern, fs)
            /\ idx' = 1
            /\ everLatest' = LatestSet(fs, pattern)
            /\ fsOps' = fsOps \cup {"glob"}
            /\ pc' = "scan"
            /\ resp' = resp
       ELSE /\ resp' = BadRequest(InvalidPatternMsg)
            /\ pc' = "respond"
            /\ UNCHANGED <<paths, idx, everLatest, fsOps>>
    /\ UNCHANGED <<envVars, bootVars, fs, route, name, pattern, cands, latest,
                   prev, dirty>>

\* serve_map: the filter_map closure on the next path:
\* path.metadata().ok().map(|metadata| (path, metadata.modified().unwrap()))
ScanStep ==
    /\ pc = "scan"
    /\ idx <= Len(paths)
    /\ LET p == paths[idx] IN
         /\ fsOps' = fsOps \cup {"metadata"}
         /\ everLatest' = everLatest \cup LatestSet(fs, pattern)
         /\ IF ~MetaOk(fs, p)
            THEN idx' = idx + 1 /\ UNCHANGED <<cands, resp, pc>>
            ELSE IF ~ModifiedOk(fs, p)
            THEN resp' = PanicResponse /\ pc' = "respond" /\ UNCHANGED <<cands, idx>>
            ELSE /\ cands' = Append(cands, [path |-> p, modified |-> StateOf(fs, p).mtime])
                 /\ idx' = idx + 1
                 /\ UNCHANGED <<resp, pc>>
    /\ UNCHANGED <<envVars, bootVars, fs, route, name, pattern, paths, latest,
                   prev, dirty>>

\* serve_map: max_by_key over the pairs, and the None arm of the match.
Select ==
    /\ pc = "scan"
    /\ idx > Len(paths)
    /\ latest' = MaxByKey(cands)
    /\ IF latest' = <<>>
       THEN resp' = NotFound(NoMatchMsg(pattern)) /\ pc' = "respond"
       ELSE resp' = resp /\ pc' = "open"
    /\ UNCHANGED <<envVars, bootVars, fs, route, name, pattern, paths, idx, cands,
                   everLatest, fsOps, prev, dirty>>

\* serve_map: NamedFile::open(&path).await.map_err(NotFound)
OpenStep ==
    /\ pc = "open"
    /\ fsOps' = fsOps \cup {"open"}
    /\ resp' = IF OpenOk(fs, latest[1]) THEN FileResponse(latest[1])
               ELSE NotFound(OpenFailedMsg)
    /\ pc' = "respond"
    /\ UNCHANGED <<envVars, bootVars, fs, route, name, scanVars, prev, dirty>>

\* GET /map: map_index.
MapIndex ==
    /\ phase = "listening"
    /\ pc = "idle"
    /\ route' = "map_index"
    /\ resp' = IF PatternValid(IndexPattern(save_dir))
               THEN HtmlResponse(SaveNames(fs))
               ELSE BadRequest(InvalidPatternMsg)
    /\ fsOps' = {"glob"}
    /\ prev' = <<>>
    /\ pc' = "respond"
    /\ UNCHANGED <<envVars, bootVars, fs, name, scanVars, dirty>>

\* OPTIONS /<any path>: all_options.
AllOptions ==
    /\ phase = "listening"
    /\ pc = "idle"
    /\ route' = "all_options"
    /\ resp' = EmptyResponse
    /\ prev' = <<>>
    /\ pc' = "respond"
    /\ UNCHANGED <<envVars, bootVars, fs, name, scanVars, fsOps, dirty>>

\* A request no mounted route matches.
Unrouted ==
    /\ phase = "listening"
    /\ pc = "idle"
    /\ route' = "none"
    /\ resp' = CatcherResponse
    /\ prev' = <<>>
    /\ pc' = "respond"
    /\ UNCHANGED <<envVars, bootVars, fs, name, scanVars, fsOps, dirty>>

\* CORS::on_response on the response of any handler or catcher.
Fairing ==
    /\ pc = "respond"
    /\ resp' = IF mounted THEN OnResponse(resp) ELSE resp
    /\ pc' = "sent"
    /\ UNCHANGED <<envVars, bootVars, fs, route, name, scanVars, fsOps, prev, dirty>>

\* The response has left; the connection is ready for the next request.
Finish ==
    /\ pc = "sent"
    /\ prev' = IF route = "serve_map" /\ ~dirty
               THEN <<[name |-> name, status |-> resp.status, kind |-> resp.kind,
                       body |-> resp.body]>>
               ELSE <<>>
    /\ pc' = "idle"
    /\ route' = "none"
    /\ name' = <<>>
    /\ pattern' = <<>>
    /\ paths' = <<>>
    /\ idx' = 0
    /\ cands' = <<>>
    /\ latest' = <<>>
    /\ everLatest' = {}
    /\ resp' = NoResponse
    /\ fsOps' = {}
    /\ dirty' = FALSE
    /\ UNCHANGED <<envVars, bootVars, fs>>

\* Another process changes one save file: creates, deletes, touches it or
\* changes its permissions.
WriteFile(p, s) ==
    /\ phase = "listening"
    /\ s # fs[p]
    /\ fs' = [fs EXCEPT ![p] = s]
    /\ prev' = <<>>
    /\ dirty' = (pc # "idle")
    /\ everLatest' = IF pc = "scan" /\ idx <= Len(paths)
                     THEN everLatest \cup LatestSet(fs', pattern)
                     ELSE everLatest
    /\ UNCHANGED <<envVars, bootVars, pc, route, name, pattern, paths, idx, cands,
                   latest, resp, fsOps>>

\* The writer acts between requests.
WriterIdle ==
    /\ pc = "idle"
    /\ \E p \in DynFiles, s \in FileStates : WriteFile(p, s)

\* The writer creates, deletes or touches save files at any time, also while
\* a request is in flight.
WriterAny ==
    \E p \in DynFiles, s \in ConcStates : WriteFile(p, s)

Next ==
    \/ LoadConfig
    \/ ValidateDir
    \/ Launch
    \/ Shutdown
    \/ ReceiveServeMap
    \/ Validate
    \/ GlobStep
    \/ ScanStep
    \/ Select
    \/ OpenStep
    \/ MapIndex
    \/ AllOptions
    \/ Unrouted
    \/ Fairing
    \/ Finish
    \/ WriterIdle

Spec == Init /\ [][Next]_vars

\* The concurrent setting: a configured server, save files that are absent
\* or readable, and requests for the names of ConcNames.
ReceiveServeMapConc == Receive(ConcNames)

InitConc ==
    /\ Init
    /\ devOk /\ cfgOk /\ dirKind = "dir"
    /\ \A p \in DynFiles : fs[p] \in ConcStates

NextConc ==
    \/ LoadConfig
    \/ ValidateDir
    \/ Launch
    \/ Shutdown
    \/ ReceiveServeMapConc
    \/ Validate
    \/ GlobStep
    \/ ScanStep
    \/ Select
    \/ OpenStep
    \/ MapIndex
    \/ AllOptions
    \/ Unrouted
    \/ Fairing
    \/ Finish
    \/ WriterAny

SpecConc == InitConc /\ [][NextConc]_vars

(***************************************************************************)
(* Properties                                                              *)
(***************************************************************************)

\* C1: a GET /map/<name> whose name contains '/', '\' or '.' is answered
\* with BadRequest (400), and serve_map performs no filesystem operation
\* (no glob scan, no metadata read, no open) for it.
C1_InvalidNameRejectedBeforeFs ==
    (route = "serve_map" /\ \E i \in 1..Len(name) : name[i] \in {"/", "\\", "."}) =>
        /\ fsOps = {}
        /\ pc \in {"validate", "respond", "sent"}
        /\ pc \in {"respond", "sent"} => resp.status = 400 /\ resp.kind = "BadRequest"

C1_Witness ==
    /\ route = "serve_map"
    /\ name = <<"s", "/", "a">>
    /\ pc = "sent"
    /\ resp.status = 400
    /\ fsOps = {}

\* C2: for every name that passes the validation, when some entry matching
\* <dir>/<name>*.sav has readable metadata and a modification time, serve_map
\* (once it is past its scan) has selected an entry whose modification time
\* is the largest of all such entries.
C2_SelectsLatestWhenReadable ==
    LET valid == \A i \in 1..Len(name) : name[i] \notin {"/", "\\", "."}
        pat == save_dir \o <<"/">> \o name \o <<"*">> \o SAV
        R == {p \in AllFiles : PathMatches(pat, p) /\ StateOf(fs, p).kind = "file"}
    IN  (route = "serve_map" /\ valid /\ pc \in {"open", "respond", "sent"} /\ R # {}) =>
            /\ latest # <<>>
            /\ latest[1] \in R
            /\ \A q \in R : StateOf(fs, q).mtime <= StateOf(fs, latest[1]).mtime

\* C2 for the requests whose scan completes, that is, in which no
\* modification time was unavailable: the entry selected has the largest
\* modification time of the matching entries with readable metadata; entries
\* whose metadata cannot be read do not make the request fail and have no
\* influence on the choice, which is the last, in file-name order, of the
\* newest readable ones.
C2_SelectsLatestReadable ==
    LET pat == save_dir \o <<"/">> \o name \o <<"*">> \o SAV
        R == {p \in AllFiles : PathMatches(pat, p) /\ StateOf(fs, p).kind = "file"}
        scanned == \/ pc = "open"
                   \/ pc \in {"respond", "sent"} /\ resp.kind \in {"File", "NotFound"}
    IN  (route = "serve_map" /\ scanned /\ R # {}) =>
            /\ latest # <<>>
            /\ latest[1] \in R
            /\ \A q \in R : StateOf(fs, q).mtime <= StateOf(fs, latest[1]).mtime
            /\ \A q \in R : StateOf(fs, q).mtime = StateOf(fs, latest[1]).mtime =>
                              ~LexLess(latest[1], q)
            /\ resp.kind = "NotFound" => resp.msg = OpenFailedMsg

C2_Witness ==
    /\ route = "serve_map"
    /\ name = <<"a">>
    /\ pc = "open"
    /\ fs[F_a0] = Present(1, TRUE)
    /\ fs[F_a1] = Present(2, TRUE)
    /\ fs[F_ab] = NoMeta
    /\ latest = <<F_a1>>

\* C3 as stated: any file serve_map serves lies directly in the save
\* directory and its file name is the requested name, taken literally,
\* followed by any characters and ending in ".sav".
C3_ServedNameLiteral ==
    (route = "serve_map" /\ pc \in {"respond", "sent"} /\ resp.kind = "File") =>
        /\ DirOf(resp.body) = save_dir
        /\ StartsWith(FileName(resp.body), name)
        /\ EndsWith(FileName(resp.body), SAV)

\* C3 amended: any file serve_map serves lies directly in the save directory
\* and its file name ends in ".sav"; the file name begins with the requested
\* name taken literally when the name has none of the glob metacharacters
\* '*', '?', '[' and ']' (a name with metacharacters is matched as a glob).
C3_ServedInsideSaveDir ==
    (route = "serve_map" /\ pc \in {"respond", "sent"} /\ resp.kind = "File") =>
        /\ DirOf(resp.body) = save_dir
        /\ EndsWith(FileName(resp.body), SAV)
        /\ Len(FileName(resp.body)) > Len(SAV)
        /\ (\A i \in 1..Len(name) : name[i] \notin {"*", "?", "[", "]"}) =>
               StartsWith(FileName(resp.body), name)

C3_Witness ==
    /\ route = "serve_map"
    /\ pc = "sent"
    /\ name = <<"?">>
    /\ resp.kind = "File"
    /\ resp.body = F_a0

\* C4 as stated: for every name that passes the validation, when no entry of
\* the save directory matches <dir>/<name>*.sav with readable metadata,
\* serve_map answers NotFound (404) with a message that contains the pattern
\* string, and opens no file.
C4_NoMatchIsNotFound ==
    LET valid == \A i \in 1..Len(name) : name[i] \notin {"/", "\\", "."}
        R == {p \in AllFiles : Listed(fs, p) /\ MetaOk(fs, p)
                               /\ PathMatches(save_dir \o <<"/">> \o name \o <<"*">> \o SAV, p)}
    IN  (route = "serve_map" /\ pc \in {"respond", "sent"} /\ valid /\ R = {}) =>
            /\ resp.status = 404
            /\ resp.kind = "NotFound"
            /\ Contains(resp.msg, save_dir \o <<"/">> \o name \o <<"*">> \o SAV)
            /\ "open" \notin fsOps

\* C4 amended: the same, for every name that passes the validation and whose
\* pattern <dir>/<name>*.sav is a well-formed glob (a malformed pattern is
\* answered with BadRequest instead).
C4_NoMatchIsNotFoundWellFormed ==
    LET valid == \A i \in 1..Len(name) : name[i] \notin {"/", "\\", "."}
        pat == save_dir \o <<"/">> \o name \o <<"*">> \o SAV
        R == {p \in AllFiles : Listed(fs, p) /\ MetaOk(fs, p) /\ PathMatches(pat, p)}
    IN  (route = "serve_map" /\ pc \in {"respond", "sent"} /\ valid
            /\ PatternValid(pat) /\ R = {}) =>
            /\ resp.status = 404
            /\ resp.kind = "NotFound"
            /\ Contains(resp.msg, pat)
            /\ "open" \notin fsOps

C4_Witness ==
    /\ route = "serve_map"
    /\ pc = "sent"
    /\ name = <<"a">>
    /\ fs[F_a0] = NoMeta
    /\ fs[F_a1] = Absent
    /\ fs[F_ab] = Absent
    /\ resp.status = 404
    /\ "metadata" \in fsOps

\* C5: the names GET /map lists are exactly the names obtained from the
\* *.sav files of the save directory by taking the part of the file name
\* before its first underscore, or the file-name stem (without ".sav") when
\* it has no underscore, duplicates collapsed.
C5_CatalogNames ==
    (route = "map_index" /\ pc \in {"respond", "sent"}) =>
        resp.names =
            { LET fn == FileName(p)
                  u  == Position(fn, "_", 1)
              IN  IF u # 0 THEN SubSeq(fn, 1, u - 1)
                  ELSE SubSeq(fn, 1, Len(fn) - Len(SAV))
              : p \in {q \in DynFiles : fs[q].kind # "absent"} }

\* C6: every response sent carries the four CORS headers, each with exactly
\* its fixed value, and the fairing gives a response exactly these values
\* whatever values the four headers had before.
C6_CorsOnEveryResponse ==
    LET exact(hs) ==
            /\ hs["Access-Control-Allow-Origin"] = <<"https://satisfactory-calculator.com">>
            /\ hs["Access-Control-Allow-Methods"] = <<"POST, GET, PATCH, OPTIONS">>
            /\ hs["Access-Control-Allow-Headers"] = <<"*">>
            /\ hs["Access-Control-Allow-Credentials"] = <<"true">>
    IN  /\ pc = "sent" => exact(resp.headers)
        /\ pc = "respond" =>
             \A hs \in [CorsHeaders -> {<<>>, <<"null">>}] :
                exact(OnResponse([resp EXCEPT !.headers = hs]).headers)

C6_Witness ==
    /\ pc = "sent"
    /\ route = "serve_map"
    /\ resp.status = 404
    /\ resp.headers["Access-Control-Allow-Origin"] = <<"https://satisfactory-calculator.com">>

\* C7: every GET /map/<name> ends in 200 with the selected file, in
\* BadRequest (400) or in NotFound (404), and in nothing else.
C7_OnlyThreeOutcomes ==
    (route = "serve_map" /\ pc \in {"respond", "sent"}) =>
        \/ resp.status = 200 /\ resp.kind = "File"
        \/ resp.status = 400 /\ resp.kind = "BadRequest"
        \/ resp.status = 404 /\ resp.kind = "NotFound"

C9_NoListenWithoutConfigAndDir ==
    LET badEnv == (~devOk /\ ~cfgOk) \/ dirKind # "dir"
    IN  /\ (phase = "listening" \/ mounted \/ pc # "idle") =>
             /\ devOk \/ cfgOk
             /\ config = (IF devOk THEN "dev" ELSE "main")
             /\ dirKind = "dir"
        /\ badEnv =>
             /\ phase # "listening" /\ ~mounted /\ pc = "idle"
             /\ exitCode # 0
             /\ phase = "exited" => exitCode > 0
             /\ phase # "exited" => ENABLED (LoadConfig \/ ValidateDir)

C9_Witness ==
    /\ phase = "exited"
    /\ exitCode = 1
    /\ devOk
    /\ config = "dev"
    /\ dirKind = "file"

\* C10 as stated: with a writer changing the save directory during a
\* request, the file serve_map selects was the most recently modified
\* matching file at some single instant of the scan.
C10_SelectedWasLatestAtSomeInstant ==
    (route = "serve_map" /\ pc = "open") => latest[1] \in everLatest

\* C10 amended: the file serve_map selects is an entry of the listing taken
\* when the scan began, and its modification time as read is the largest of
\* the times read, each entry's time being read at its own instant; it was
\* the latest match at an instant of the scan when no write fell into the
\* request, and otherwise it need not have been the latest at any instant.
C10_SelectedIsLatestOfReads ==
    (route = "serve_map" /\ pc = "open") =>
        /\ \E i \in 1..Len(paths) : paths[i] = latest[1]
        /\ \E i \in 1..Len(cands) :
             /\ cands[i].path = latest[1]
             /\ \A j \in 1..Len(cands) : cands[j].modified <= cands[i].modified
        /\ ~dirty => latest[1] \in everLatest

C10_Witness ==
    /\ route = "serve_map"
    /\ pc = "open"
    /\ dirty
    /\ latest # <<>>
    /\ latest[1] \notin everLatest

====
